---------------------------- MODULE Spec2Model ----------------------------
(***************************************************************************)
(* Model of the two scripts of the repository:                             *)
(*   find_broken_links.py  the BrokenLinkScanner crawl loop with its two   *)
(*                         anydbm stores (results: synced on every write;  *)
(*                         queue: never synced), and ResultRecord;         *)
(*   multi-xargs.py        the partitioning of stdin arguments.            *)
(*                                                                         *)
(* Python values are encoded as follows.  An optional value is a set:      *)
(* {} is None/absent, {v} is the value v.  A URL is the record             *)
(* [scheme, host, path]; host is the sequence of its dot-separated labels. *)
(* A dict is a function; an absent key is a key outside its DOMAIN.        *)
(***************************************************************************)
EXTENDS Integers, Sequences, FiniteSets, TLC

VARIABLES
    site,           \* what the web serves: URL -> set of hrefs of the page
    start_url,      \* sys.argv[1]
    base_url,       \* self.base_url
    results,        \* self._results (name + '.db'); synced on every write
    queue,          \* self._queue as the running process sees it
    qdisk,          \* name + '.queue' as it is on disk (never synced)
    pc,             \* position of the process
    url,            \* run(): url, as an optional value
    current_task,   \* run(): current_task
    r,              \* run(): r, the kwargs of the ResultRecord
    todo,           \* run(): links of r not yet offered to _push_task
    success_count,  \* self._success_count
    fail_count,     \* self._fail_count
    runs,           \* number of times the program was started
    resumed_with,   \* keys of results when the scanner was constructed
    reported,       \* URLs for which _print_status has printed a line
    accepted,       \* URLs _push_task has put into the queue, over all runs
    pending_at_kill, \* the queue had items, in memory and on disk, at the last kill
    lost,           \* the URL popped and not yet stored at the last kill
    first_results,  \* the results of an earlier crawl under another name
    xpc,            \* multi-xargs: position
    num_parts,      \* multi-xargs: num_parts
    args,           \* multi-xargs: args
    partitioned_args, \* multi-xargs: partitioned_args
    commands,       \* multi-xargs: commands
    launched,       \* multi-xargs: commands handed to tmux, in order
    kwargs,         \* ResultRecord under test: self.kwargs
    ok_result       \* ResultRecord under test: value read from .ok

scanner_vars == <<site, start_url, base_url, results, queue, qdisk, pc, url,
                  current_task, r, todo, success_count, fail_count, runs,
                  resumed_with, reported, accepted, pending_at_kill, lost,
                  first_results>>
xargs_vars == <<xpc, num_parts, args, partitioned_args, commands, launched>>
record_vars == <<kwargs, ok_result>>
vars == <<scanner_vars, xargs_vars, record_vars>>

-----------------------------------------------------------------------------
(* Bounds *)

\* how many times the program is started on the same name
MaxRuns == 2
\* longest stdin of multi-xargs
MaxArgs == 6
\* largest num_parts of multi-xargs
MaxParts == 4

-----------------------------------------------------------------------------
(* Python helpers *)

None == {}

Some(v) == {v}

\* x or None, for an optional integer
IntOrNone(x) == IF x = {0} THEN None ELSE x

\* d.get(k), for a dict whose values are optional values
Get(d, k) == IF k \in DOMAIN d THEN d[k] ELSE None

\* the empty dict
EmptyDict == [k \in {} |-> {}]

\* d[k] = v
DictSet(d, k, v) == [x \in DOMAIN d \cup {k} |-> IF x = k THEN v ELSE d[x]]

\* del d[k]
DictDel(d, k) == [x \in DOMAIN d \ {k} |-> d[x]]

\* s.startswith(p) on sequences
StartsWith(s, p) == Len(p) <= Len(s) /\ SubSeq(s, 1, Len(p)) = p

-----------------------------------------------------------------------------
(* URLs *)

Url(s, h, p) == [scheme |-> s, host |-> h, path |-> p]

A == Url("http", <<"a", "test">>, "/")
B == Url("http", <<"a", "test">>, "/b")
C == Url("http", <<"a", "test">>, "/c")
D == Url("http", <<"a", "test">>, "/d")
E == Url("http", <<"a", "test">>, "/e")
F == Url("http", <<"a", "test">>, "/f")
X == Url("https", <<"b", "test">>, "/page")
M == Url("mailto", <<>>, "me@a.test")

URLS == {A, B, C, D, E, F, X, M}

\* url.split(':', 1)[0]
Scheme(u) == u.scheme

\* urlunparse(ParseResult(p.scheme, p.netloc, '', '', '', ''))
BaseUrl(u) == [scheme |-> u.scheme, host |-> u.host]

\* url.startswith(self.base_url): a textual prefix, so a host that
\* continues the base host with further labels matches too
UrlStartsWith(u, base) == u.scheme = base.scheme /\ StartsWith(u.host, base.host)


-----------------------------------------------------------------------------
(* The web: bounded sets of sites, seeds and responses *)

\* a chain of pages, A -> B -> C -> D -> E -> F
SiteChain ==
    [u \in URLS |-> CASE u = A -> {B} [] u = B -> {C} [] u = C -> {D}
                      [] u = D -> {E} [] u = E -> {F} [] OTHER -> {}]

\* the chain with a shortcut A -> C, closed by F -> A
SiteShortcut ==
    [u \in URLS |-> CASE u = A -> {B, C} [] u = B -> {C} [] u = C -> {D}
                      [] u = D -> {E} [] u = E -> {F} [] u = F -> {A}
                      [] OTHER -> {}]

\* self links, cycles, several referrers, an external page and a mailto link
SiteCycle ==
    [u \in URLS |-> CASE u = A -> {A, B, X, M} [] u = B -> {A, C, X}
                      [] u = C -> {B} [] u = X -> {A, D} [] OTHER -> {}]

\* three pages that all link to each other and to themselves
SiteDense ==
    [u \in URLS |-> IF u \in {A, B, C} THEN {A, B, C} ELSE {}]

Sites == {SiteChain, SiteShortcut, SiteCycle, SiteDense}

Seeds == {A, X, M}

\* response.status_code of the responses the web may give
FetchStatuses == {200, 404}

\* response.headers, as the set of header names
ResponseHeaders == {"Content-type"}

\* requests' Response.ok: raise_for_status() does not raise
ResponseOk(status) == ~(400 <= status /\ status < 600)

-----------------------------------------------------------------------------
(* ResultRecord *)

RecUrl(k) == k.url

RecLinks(k) == Get(k, "links")

RecHeaders(k) == Get(k, "headers")

RecStatus(k) == IntOrNone(Get(k, "status"))

\* an exception instance is never false, so "or None" leaves it as it is
RecException(k) == Get(k, "exception")

\* ok with the upper end of the range included
RecOkUpTo400(k) ==
    RecException(k) = None /\ \E s \in RecStatus(k) : s \in 200..400

RecOk(k) == RecException(k) = None /\ \E s \in RecStatus(k) : s \in 200..399

\* str(r.exception)
Str(e) == IF e = None THEN "None" ELSE CHOOSE x \in e : TRUE

\* dbrec that leaves the exception out
DbRecNoException(k) ==
    [url |-> RecUrl(k), headers |-> RecHeaders(k), links |-> RecLinks(k),
     status |-> RecStatus(k), exception |-> "None"]

\* dbrec of run()
DbRec(k) ==
    [url |-> RecUrl(k), headers |-> RecHeaders(k), links |-> RecLinks(k),
     status |-> RecStatus(k), exception |-> Str(RecException(k))]

-----------------------------------------------------------------------------
(* BrokenLinkScanner *)

MaxTrail == 5

\* _should_follow without the "already run" test
ShouldFollowAgain(res, name, task) ==
    /\ Scheme(name) \in {"http", "https"}
    /\ ~("trail" \in DOMAIN task /\ Len(task.trail) >= MaxTrail)

\* _should_follow with the trail test off by one
ShouldFollowDeeper(res, name, task) ==
    /\ name \notin DOMAIN res
    /\ Scheme(name) \in {"http", "https"}
    /\ ~("trail" \in DOMAIN task /\ Len(task.trail) > MaxTrail)

\* _should_follow that also turns down a URL whose iteration was cut short
ShouldFollowSkipLost(res, name, task) ==
    /\ name \notin DOMAIN res
    /\ name \notin lost
    /\ Scheme(name) \in {"http", "https"}
    /\ ~("trail" \in DOMAIN task /\ Len(task.trail) >= MaxTrail)

\* _should_follow that knows the http scheme only
ShouldFollowHttpOnly(res, name, task) ==
    /\ name \notin DOMAIN res
    /\ Scheme(name) \in {"http"}
    /\ ~("trail" \in DOMAIN task /\ Len(task.trail) >= MaxTrail)

ShouldFollow(res, name, task) ==
    /\ name \notin DOMAIN res
    /\ Scheme(name) \in {"http", "https"}
    /\ ~("trail" \in DOMAIN task /\ Len(task.trail) >= MaxTrail)

\* _queue_length that is one too large
QueueLengthOffByOne(q) == Cardinality(DOMAIN q) + 1

\* self._queue_length()
QueueLength(q) == Cardinality(DOMAIN q)

\* the queue after popitem() has taken key k
PopItem(q, k) == DictDel(q, k)

\* the queue after _push_task(name, **task)
PushTask(q, res, name, task) ==
    IF ShouldFollow(res, name, task) THEN DictSet(q, name, task) ELSE q

\* the records _process_internal may return, and the exceptions it may raise
ProcessInternal(u) ==
    { [url |-> u,
       links |-> IF ResponseOk(s) THEN site[u] ELSE {},
       status |-> Some(s),
       headers |-> ResponseHeaders,
       exception |-> None] : s \in FetchStatuses }
    \cup { [raise |-> e] : e \in {"ConnectionError", "ParserError"} }

\* _process_external that extracts links as _process_internal does
ProcessExternalParsing(u) ==
    { [url |-> u,
       links |-> IF ResponseOk(s) THEN site[u] ELSE {},
       status |-> Some(s),
       headers |-> ResponseHeaders,
       exception |-> None] : s \in FetchStatuses }
    \cup { [raise |-> e] : e \in {"ConnectionError"} }

\* the records _process_external may return, and the exceptions it may raise
ProcessExternal(u) ==
    { [url |-> u, status |-> Some(s), headers |-> ResponseHeaders,
       exception |-> None] : s \in FetchStatuses }
    \cup { [raise |-> e] : e \in {"ConnectionError"} }

\* the records _process_url may return
ProcessUrl(u) ==
    IF Scheme(u) \notin {"http", "https"}
    THEN { [url |-> u, exception |-> Some("ValueError")] }
    ELSE LET tried == IF UrlStartsWith(u, base_url)
                      THEN ProcessInternal(u) ELSE ProcessExternal(u)
         IN  { IF "raise" \in DOMAIN k
               THEN [url |-> u, exception |-> Some(k.raise)]
               ELSE k : k \in tried }

NoTask == [trail |-> <<>>]
NoRecord == [url |-> A]
NoBase == [scheme |-> "", host |-> <<>>]

\* BrokenLinkScanner(start_url, name): opens both stores and seeds the queue
Construct ==
    /\ pc \in {"off", "killed"}
    /\ runs < MaxRuns
    /\ runs' = runs + 1
    /\ base_url' = BaseUrl(start_url)
    /\ fail_count' = 0
    /\ success_count' = 0
    /\ resumed_with' = DOMAIN results
    /\ queue' = PushTask(qdisk, results, start_url, [trail |-> <<>>])
    /\ accepted' = IF ShouldFollow(results, start_url, [trail |-> <<>>])
                   THEN accepted \cup {start_url} ELSE accepted
    /\ pc' = "loop"
    /\ UNCHANGED <<site, start_url, results, qdisk, url, current_task, r,
                   todo, reported, pending_at_kill>>
    /\ UNCHANGED <<xargs_vars, record_vars, first_results, lost>>

\* run(): the loop test succeeds and _pop_task() takes one item
PopTask ==
    /\ pc = "loop"
    /\ QueueLength(queue) > 0
    /\ \E k \in DOMAIN queue :
          /\ url' = Some(k)
          /\ current_task' = queue[k]
          /\ queue' = PopItem(queue, k)
    /\ pc' = "popped"
    /\ UNCHANGED <<site, start_url, base_url, results, qdisk, r, todo,
                   success_count, fail_count, runs, resumed_with, reported,
                   accepted, pending_at_kill>>
    /\ UNCHANGED <<xargs_vars, record_vars, first_results, lost>>

\* run(): r = self._process_url(url), then the success/failure count
Process ==
    /\ pc = "popped"
    /\ \E u \in url : \E k \in ProcessUrl(u) :
          /\ r' = k
          /\ success_count' = IF RecOk(k) THEN success_count + 1
                              ELSE success_count
          /\ fail_count' = IF RecOk(k) THEN fail_count ELSE fail_count + 1
    /\ pc' = "processed"
    /\ UNCHANGED <<site, start_url, base_url, results, queue, qdisk, url,
                   current_task, todo, runs, resumed_with, reported,
                   accepted, pending_at_kill>>
    /\ UNCHANGED <<xargs_vars, record_vars, first_results, lost>>

\* the iteration goes on without the record being written
StoreUnwritten ==
    /\ pc = "processed"
    /\ todo' = RecLinks(r)
    /\ pc' = "stored"
    /\ UNCHANGED <<site, start_url, base_url, results, queue, qdisk, url,
                   current_task, r, success_count, fail_count, runs,
                   resumed_with, reported, accepted, pending_at_kill>>
    /\ UNCHANGED <<xargs_vars, record_vars, first_results, lost>>

\* run(): self._store(r.url, dbrec), which writes and syncs
Store ==
    /\ pc = "processed"
    /\ results' = DictSet(results, RecUrl(r), DbRec(r))
    /\ todo' = RecLinks(r)
    /\ pc' = "stored"
    /\ UNCHANGED <<site, start_url, base_url, queue, qdisk, url,
                   current_task, r, success_count, fail_count, runs,
                   resumed_with, reported, accepted, pending_at_kill>>
    /\ UNCHANGED <<xargs_vars, record_vars, first_results, lost>>

\* run(): one turn of "for link in r.links"
PushLink ==
    /\ pc = "stored"
    /\ \E link \in todo : \E u \in url :
          LET trail == (IF "trail" \in DOMAIN current_task
                        THEN current_task.trail ELSE <<>>) \o <<u>>
          IN  /\ queue' = PushTask(queue, results, link, [trail |-> trail])
              /\ accepted' = IF ShouldFollow(results, link, [trail |-> trail])
                             THEN accepted \cup {link} ELSE accepted
              /\ todo' = todo \ {link}
    /\ UNCHANGED <<site, start_url, base_url, results, qdisk, pc, url,
                   current_task, r, success_count, fail_count, runs,
                   resumed_with, reported, pending_at_kill>>
    /\ UNCHANGED <<xargs_vars, record_vars, first_results, lost>>

\* run(): self._print_status(url, r), and back to the loop test
PrintStatus ==
    /\ pc = "stored"
    /\ todo = {}
    /\ reported' = reported \cup url
    /\ pc' = "loop"
    /\ url' = None
    /\ current_task' = NoTask
    /\ r' = NoRecord
    /\ UNCHANGED <<site, start_url, base_url, results, queue, qdisk, todo,
                   success_count, fail_count, runs, resumed_with, accepted,
                   pending_at_kill>>
    /\ UNCHANGED <<xargs_vars, record_vars, first_results, lost>>

\* run(): the loop test fails, _print_done(); the script ends and the
\* stores are closed, which writes the queue back
Finish ==
    /\ pc = "loop"
    /\ ~(QueueLength(queue) > 0)
    /\ pc' = "done"
    /\ qdisk' = queue
    /\ UNCHANGED <<site, start_url, base_url, results, queue, url,
                   current_task, r, todo, success_count, fail_count, runs,
                   resumed_with, reported, accepted, pending_at_kill>>
    /\ UNCHANGED <<xargs_vars, record_vars, first_results, lost>>

\* the dbm library writes the unsynced queue back to its file
Flush ==
    /\ pc \in {"loop", "popped", "processed", "stored"}
    /\ qdisk # queue
    /\ qdisk' = queue
    /\ UNCHANGED <<site, start_url, base_url, results, queue, pc, url,
                   current_task, r, todo, success_count, fail_count, runs,
                   resumed_with, reported, accepted, pending_at_kill>>
    /\ UNCHANGED <<xargs_vars, record_vars, first_results, lost>>

\* the process is killed: what was in memory is gone, the files stay
Kill ==
    /\ pc \in {"loop", "popped", "processed", "stored"}
    /\ runs < MaxRuns
    /\ pc' = "killed"
    /\ queue' = EmptyDict
    /\ url' = None
    /\ current_task' = NoTask
    /\ r' = NoRecord
    /\ todo' = {}
    /\ success_count' = 0
    /\ fail_count' = 0
    /\ base_url' = NoBase
    /\ reported' = {}
    /\ pending_at_kill' = (DOMAIN queue # {} /\ DOMAIN qdisk # {})
    /\ lost' = IF pc \in {"popped", "processed"} THEN url ELSE {}
    /\ UNCHANGED <<site, start_url, results, qdisk, runs, resumed_with,
                   accepted>>
    /\ UNCHANGED <<xargs_vars, record_vars, first_results>>

ScannerInit ==
    /\ site \in Sites
    /\ start_url \in Seeds
    /\ base_url = NoBase
    /\ results = EmptyDict
    /\ queue = EmptyDict
    /\ qdisk = EmptyDict
    /\ pc = "off"
    /\ url = None
    /\ current_task = NoTask
    /\ r = NoRecord
    /\ todo = {}
    /\ success_count = 0
    /\ fail_count = 0
    /\ runs = 0
    /\ resumed_with = {}
    /\ reported = {}
    /\ accepted = {}
    /\ pending_at_kill = FALSE
    /\ lost = {}
    /\ first_results = None

XargsOff ==
    /\ xpc = "off"
    /\ num_parts = 0
    /\ args = <<>>
    /\ partitioned_args = <<>>
    /\ commands = <<>>
    /\ launched = <<>>

RecordOff ==
    /\ kwargs = NoRecord
    /\ ok_result = None

Init == ScannerInit /\ XargsOff /\ RecordOff

\* the steps of one uninterrupted execution of the script
RunNext ==
    \/ Construct
    \/ PopTask
    \/ Process
    \/ Store
    \/ PushLink
    \/ PrintStatus
    \/ Finish

Next ==
    \/ RunNext
    \/ Flush
    \/ Kill

\* the script, the library's write-back and kills
Spec == Init /\ [][Next]_vars

\* the script is run again on the same site under another name, so with
\* new stores; the results of the crawl that has finished are kept aside
StartOver ==
    /\ pc = "done"
    /\ first_results = None
    /\ first_results' = Some(results)
    /\ results' = EmptyDict
    /\ queue' = EmptyDict
    /\ qdisk' = EmptyDict
    /\ pc' = "off"
    /\ base_url' = NoBase
    /\ success_count' = 0
    /\ fail_count' = 0
    /\ runs' = 0
    /\ resumed_with' = {}
    /\ reported' = {}
    /\ accepted' = {}
    /\ UNCHANGED <<site, start_url, url, current_task, r, todo,
                   pending_at_kill, lost>>
    /\ UNCHANGED <<xargs_vars, record_vars>>

\* Process, with the web answering for a URL as it did in the earlier crawl
ProcessSame ==
    /\ Process
    /\ \A fr \in first_results :
          RecUrl(r') \in DOMAIN fr => DbRec(r') = fr[RecUrl(r')]

PairNext ==
    \/ Construct
    \/ PopTask
    \/ ProcessSame
    \/ Store
    \/ PushLink
    \/ PrintStatus
    \/ Finish
    \/ StartOver

\* two uninterrupted crawls of the same site from the same seed, the web
\* giving the same response for a URL both times
PairSpec == Init /\ [][PairNext]_vars /\ WF_vars(PairNext)

\* one execution that is never killed; each step of the sequential loop
\* is taken once it is enabled
RunSpec == Init /\ [][RunNext]_vars /\ WF_vars(RunNext)


-----------------------------------------------------------------------------
(* ResultRecord on its own: every kwargs bag of a bounded set is read *)

\* values given as status=...: the key may also be missing, or None
TestStatuses == {0, 100, 199, 200, 201, 204, 299, 300, 301, 302, 399, 400,
                 401, 404, 500, 503, 599, 600}

TestExceptions == {"ValueError", "ConnectionError"}

RecordInputs ==
    LET statuses == {None} \cup {Some(s) : s \in TestStatuses}
        excs == {None} \cup {Some(e) : e \in TestExceptions}
    IN  { [url |-> A, status |-> s, exception |-> e] :
              s \in statuses, e \in excs }
        \cup { [url |-> A, status |-> s] : s \in statuses }
        \cup { [url |-> A, exception |-> e] : e \in excs }
        \cup { [url |-> A] }

\* the scanner is not running
ScannerOff ==
    /\ site = SiteChain
    /\ start_url = A
    /\ base_url = NoBase
    /\ results = EmptyDict
    /\ queue = EmptyDict
    /\ qdisk = EmptyDict
    /\ pc = "off"
    /\ url = None
    /\ current_task = NoTask
    /\ r = NoRecord
    /\ todo = {}
    /\ success_count = 0
    /\ fail_count = 0
    /\ runs = MaxRuns
    /\ resumed_with = {}
    /\ reported = {}
    /\ accepted = {}
    /\ pending_at_kill = FALSE
    /\ lost = {}
    /\ first_results = None

RecordInit ==
    /\ kwargs \in RecordInputs
    /\ ok_result = None

\* ResultRecord(**kwargs).ok
ReadOk ==
    /\ ok_result = None
    /\ ok_result' = Some(RecOk(kwargs))
    /\ UNCHANGED <<kwargs, scanner_vars, xargs_vars>>

RecInit == ScannerOff /\ XargsOff /\ RecordInit

RecNext == ReadOk

RecSpec == RecInit /\ [][RecNext]_vars

-----------------------------------------------------------------------------
(* multi-xargs.py *)

\* sys.argv[2:]
command == <<"echo">>

\* the lines that may come on stdin
ArgValues == {"x", "y"}

RECURSIVE SeqsUpTo(_)
SeqsUpTo(n) ==
    IF n = 0 THEN {<<>>}
    ELSE LET shorter == SeqsUpTo(n - 1)
         IN  shorter \cup { Append(q, v) : q \in {t \in shorter : Len(t) = n - 1},
                                           v \in ArgValues }

Min(a, b) == IF a <= b THEN a ELSE b

\* chunks that slices l[i:i+n-1]
ChunksShort(l, n) ==
    LET starts == {i \in 0..(Len(l) - 1) : i % n = 0}
    IN  [j \in 1..Cardinality(starts) |->
            SubSeq(l, (j - 1) * n + 1, Min(j * n - 1, Len(l)))]

\* list(chunks(l, n)): one slice l[i:i+n] for each i of xrange(0, len(l), n)
Chunks(l, n) ==
    LET starts == {i \in 0..(Len(l) - 1) : i % n = 0}
    IN  [j \in 1..Cardinality(starts) |->
            SubSeq(l, (j - 1) * n + 1, Min(j * n, Len(l)))]

\* int(math.ceil(a / b)) under true division, b > 0
CeilDiv(a, b) == IF a % b = 0 THEN a \div b ELSE (a \div b) + 1

XargsInit ==
    /\ xpc = "start"
    /\ num_parts \in 0..MaxParts
    /\ args \in SeqsUpTo(MaxArgs)
    /\ partitioned_args = <<>>
    /\ commands = <<>>
    /\ launched = <<>>

\* lines 26-27: too few arguments
NotEnough ==
    /\ xpc = "start"
    /\ Len(args) < num_parts
    /\ xpc' = "ValueError"
    /\ UNCHANGED <<num_parts, args, partitioned_args, commands, launched>>
    /\ UNCHANGED <<scanner_vars, record_vars>>

\* line 29 with num_parts = 0
DivideByZero ==
    /\ xpc = "start"
    /\ ~(Len(args) < num_parts)
    /\ num_parts = 0
    /\ xpc' = "ZeroDivisionError"
    /\ UNCHANGED <<num_parts, args, partitioned_args, commands, launched>>
    /\ UNCHANGED <<scanner_vars, record_vars>>

\* lines 29-31: partition, then the assertion
Partition ==
    /\ xpc = "start"
    /\ ~(Len(args) < num_parts)
    /\ num_parts # 0
    /\ LET args_per_command == CeilDiv(Len(args), num_parts)
       IN  partitioned_args' = Chunks(args, args_per_command)
    /\ xpc' = IF Len(partitioned_args') = num_parts
              THEN "partitioned" ELSE "AssertionError"
    /\ UNCHANGED <<num_parts, args, commands, launched>>
    /\ UNCHANGED <<scanner_vars, record_vars>>

\* lines 33-36: one command line per partition
BuildCommands ==
    /\ xpc = "partitioned"
    /\ commands' = [j \in 1..Len(partitioned_args) |->
                       command \o partitioned_args[j]]
    /\ xpc' = "launching"
    /\ UNCHANGED <<num_parts, args, partitioned_args, launched>>
    /\ UNCHANGED <<scanner_vars, record_vars>>

\* lines 40-42: tmux new-window for commands[0], split-window for the rest
Launch ==
    /\ xpc = "launching"
    /\ Len(launched) < Len(commands)
    /\ launched' = Append(launched, commands[Len(launched) + 1])
    /\ UNCHANGED <<xpc, num_parts, args, partitioned_args, commands>>
    /\ UNCHANGED <<scanner_vars, record_vars>>

\* line 43: tmux select-layout tiled
SelectLayout ==
    /\ xpc = "launching"
    /\ Len(launched) = Len(commands)
    /\ xpc' = "done"
    /\ UNCHANGED <<num_parts, args, partitioned_args, commands, launched>>
    /\ UNCHANGED <<scanner_vars, record_vars>>

XargsNext ==
    \/ NotEnough
    \/ DivideByZero
    \/ Partition
    \/ BuildCommands
    \/ Launch
    \/ SelectLayout

XargsStart == ScannerOff /\ XargsInit /\ RecordOff

XargsSpec == XargsStart /\ [][XargsNext]_vars


-----------------------------------------------------------------------------
(* Properties *)

Keys(d) == DOMAIN d

Size(d) == Cardinality(DOMAIN d)

Running == pc \in {"loop", "popped", "processed", "stored"}

\* C1: in a run that is never interrupted, a URL that is popped, processed
\* or about to be stored is not yet a key of the results, so no URL is popped
\* twice and _store never writes a key that exists.
NoDuplicateVisits ==
    /\ pc \in {"popped", "processed"} => \A u \in url : u \notin Keys(results)
    /\ pc = "processed" => (RecUrl(r) \in url /\ RecUrl(r) \notin Keys(results))

\* a stored page is linked again from another page that was just stored
RediscoveredStored ==
    /\ pc = "stored"
    /\ \E link \in todo : link \in Keys(results) /\ link \notin url
    /\ Size(results) >= 3

\* C2: after a kill that left N URLs in the results and items in the
\* frontier, the next run of the same name fetches none of those N URLs.
ResumeFetchesNoStoredUrl ==
    (runs > 1 /\ pending_at_kill /\ pc = "processed")
        => \A u \in url : u \notin resumed_with

\* C3: the popped item stays in the frontier until its result is written,
\* and after a kill every URL that was accepted into the frontier is a key
\* of the frontier file or of the results.
NoQueuedWorkLost ==
    /\ pc \in {"popped", "processed"} => \A u \in url : u \in Keys(queue)
    /\ pc = "killed" => accepted \subseteq (Keys(qdisk) \cup Keys(results))

\* C4: the run reaches "done" with an empty frontier, and the loop body is
\* entered only with a non-empty frontier.
FrontierExhaustionTerminates ==
    /\ <>(pc = "done" /\ Size(queue) = 0)
    /\ [][pc' = "popped" => Size(queue) > 0]_vars

\* a run over several pages has finished
FinishedCrawl == pc = "done" /\ Size(results) >= 4 /\ Size(queue) = 0

\* C5: every item of the frontier has a trail shorter than 5, and on the
\* chain A -> B -> C -> D -> E -> F seeded with A, F is never a key of the
\* results.
DepthCapEnforced ==
    /\ \A u \in Keys(queue) : Len(queue[u].trail) < 5
    /\ (site = SiteChain /\ start_url = A) => F \notin Keys(results)

\* on the chain, E was fetched, linked to F, and F was turned away
ChainEndRejected ==
    /\ site = SiteChain /\ start_url = A
    /\ pc = "stored" /\ url = {E} /\ F \in RecLinks(r) /\ todo = {}
    /\ F \notin Keys(queue)

\* C6: a URL that does not start with base_url gets a record without links,
\* whatever the response, and nothing is offered to the frontier for it.
IsExternal(u) == ~UrlStartsWith(u, BaseUrl(start_url))

ExternalNeverLinks ==
    /\ \A u \in Keys(results) : IsExternal(u) => results[u].links = {}
    /\ (pc \in {"processed", "stored"} /\ \E u \in url : IsExternal(u))
           => (RecLinks(r) = {} /\ todo = {})

\* an external page that does have anchors answered 200 and was stored
ExternalPageStored ==
    \E u \in Keys(results) :
        /\ IsExternal(u) /\ site[u] # {}
        /\ results[u].status = {200}

\* C7: ok is true exactly when the exception is absent and the status is
\* present with 200 <= status < 400.
StatusClassification ==
    \A b \in ok_result :
        b <=> /\ Get(kwargs, "exception") = None
              /\ \E s \in Get(kwargs, "status") : 200 <= s /\ s < 400

\* status=200 without exception was read as ok
OkRead ==
    /\ ok_result = {TRUE}
    /\ kwargs = [url |-> A, status |-> {200}, exception |-> None]

\* tasks _push_task may be called with
TaskSamples ==
    {EmptyDict} \cup
    { [trail |-> t] : t \in {<<>>, <<A, B, C, D>>} }

\* the URL passes the follow-policy of section 4.1
PassesPolicy(u, task) ==
    /\ u \notin Keys(results)
    /\ u.scheme \in {"http", "https"}
    /\ ~("trail" \in DOMAIN task /\ Len(task.trail) >= 5)

\* C8 as stated: in the link loop of run(), two calls of _push_task with a
\* URL that passes the follow-policy leave one entry for it and a frontier
\* one larger than before the first call.
IdempotentInsertionGrowsByOne ==
    pc = "stored" =>
        \A u \in URLS : \A t1, t2 \in TaskSamples :
            (PassesPolicy(u, t1) /\ PassesPolicy(u, t2)) =>
                LET q1 == PushTask(queue, results, u, t1)
                    q2 == PushTask(q1, results, u, t2)
                IN  /\ u \in Keys(q2)
                    /\ Size(q2) = Size(q1)
                    /\ Size(q2) = Size(queue) + 1

\* C8, amended: ... a frontier one larger than before the first call when
\* the URL was not yet a key of it, and of the same size when it was.
IdempotentInsertion ==
    pc = "stored" =>
        \A u \in URLS : \A t1, t2 \in TaskSamples :
            (PassesPolicy(u, t1) /\ PassesPolicy(u, t2)) =>
                LET q1 == PushTask(queue, results, u, t1)
                    q2 == PushTask(q1, results, u, t2)
                IN  /\ u \in Keys(q2)
                    /\ Size(q2) = Size(q1)
                    /\ Size(q2) = Size(queue)
                                  + (IF u \in Keys(queue) THEN 0 ELSE 1)

\* run() is about to call _push_task for a link that is in the queue
\* already, put there by another page
PushedTwice ==
    /\ pc = "stored"
    /\ \E link \in todo : \E u \in url :
          /\ link \in Keys(queue)
          /\ queue[link].trail # current_task.trail \o <<u>>
          /\ PassesPolicy(link, [trail |-> current_task.trail \o <<u>>])

\* C9: when the fetch raises, the failure counter alone is incremented, the
\* record written under the URL has the exception and no status, and the
\* loop comes back to its test.
FetchFailed == pc = "processed" /\ RecException(r) # None

FailuresAbsorbed ==
    /\ [][(pc = "popped" /\ pc' = "processed" /\ RecException(r') # None)
            => (fail_count' = fail_count + 1
                /\ success_count' = success_count)]_vars
    /\ [][(FetchFailed /\ pc' # "processed")
            => (/\ pc' = "stored"
                /\ RecUrl(r) \in url
                /\ RecUrl(r) \in Keys(results')
                /\ results'[RecUrl(r)].exception # "None"
                /\ results'[RecUrl(r)].status = None)]_vars
    /\ (FetchFailed ~> (pc = "loop"))

\* a fetch failed, its record is stored, and the loop has more to pop
FailureThenNext ==
    /\ pc = "loop" /\ Size(queue) > 0 /\ fail_count = 1 /\ success_count = 1
    /\ \E u \in Keys(results) :
          results[u].exception = "ConnectionError" /\ results[u].status = None

\* C10: with len(args) >= num_parts >= 1 the arguments are split into
\* exactly num_parts partitions, the assertion holds and num_parts commands
\* are launched.
ExactlyNumParts ==
    (xpc \notin {"start", "ValueError"} /\ Len(args) >= num_parts
        /\ num_parts >= 1)
    => /\ xpc # "AssertionError"
       /\ Len(partitioned_args) = num_parts
       /\ xpc = "done" => Len(launched) = num_parts

\* C11: _push_task for a URL that is a key of the queue already leaves the
\* queue as it is, the stored trail included.
RediscoveryIsNoOp ==
    [][(pc = "stored" /\ pc' = "stored" /\ todo' # todo /\ (todo \ todo') \subseteq Keys(queue))
          => queue' = queue]_vars

\* C12: two crawls of the same site from the same seed, with the same fetch
\* outcomes, end with the same keys in the results, whatever the pop order.
PopOrderIrrelevant ==
    (pc = "done" /\ first_results # None)
        => \A fr \in first_results : Keys(results) = DOMAIN fr

\* C13: when the fetch of an internal page succeeded and the extraction of
\* its links failed, the stored record has the status and the headers of
\* the response, and no links.
ParseErrorKeepsStatus ==
    \A u \in Keys(results) :
        results[u].exception = "ParserError"
            => /\ results[u].status # None
               /\ results[u].headers = ResponseHeaders
               /\ results[u].links = {}

\* C14: in an uninterrupted run every key of the queue has scheme http or
\* https, is not a key of the results and has a trail shorter than 5, and
\* every queued URL is processed later on.
QueueIsPendingWork ==
    \A u \in Keys(queue) :
        /\ Scheme(u) \in {"http", "https"}
        /\ u \notin Keys(results)
        /\ Len(queue[u].trail) < 5

FrontierIsRealWork ==
    /\ []QueueIsPendingWork
    /\ \A u \in URLS : (u \in Keys(queue)) ~> (u \in Keys(results))

\* several URLs wait in the queue while others are stored
SeveralPending == pc = "loop" /\ Size(queue) >= 2 /\ Size(results) >= 2

\* C15: a URL whose progress line was printed, or whose links are being
\* offered to the queue, is a key of the (synced) results.
DurableBeforeReported ==
    /\ reported \subseteq Keys(results)
    /\ pc = "stored" => url \subseteq Keys(results)

\* a line was printed and the links of the next page are being pushed
ReportedAndPushing == reported # {} /\ pc = "stored" /\ todo # {}

\* C16 as stated: a URL popped and not stored at the kill is in neither
\* store after the restart, and the resumed run neither queues nor fetches
\* it again.
LostUrlSkipped ==
    /\ pc = "killed" =>
          \A u \in lost : u \notin Keys(qdisk) /\ u \notin Keys(results)
    /\ (runs > 1 /\ Running) =>
          \A u \in lost : u \notin Keys(queue) /\ u \notin url

\* C16, amended: the interrupted iteration has written no record, and the
\* resumed run queues the URL again when a processed page links to it,
\* unless it is a key of the results or the trail has reached 5.
LostUrlRequeued ==
    /\ [](pc = "killed" =>
            \A u \in lost : u \in Keys(results) => u \in resumed_with)
    /\ [][(runs > 1 /\ pc = "stored" /\ pc' = "stored" /\ todo' # todo)
            => \A link \in (todo \ todo') \cap lost :
                  (link \notin Keys(results) /\ Len(current_task.trail) < 4)
                      => /\ link \in Keys(queue')
                         /\ \E u \in url :
                               queue'[link].trail = current_task.trail \o <<u>>
         ]_vars

\* the resumed run has put the lost URL back into the queue, from the links
\* of another page
LostUrlBackInQueue ==
    /\ runs > 1 /\ pc = "stored"
    /\ \E link \in lost : \E u \in url :
          /\ link # u
          /\ link \in RecLinks(r) /\ link \notin todo
          /\ link \notin Keys(results)
          /\ link \in Keys(queue)
          /\ queue[link].trail = current_task.trail \o <<u>>

\* C17: at the end of the crawl a URL of another scheme than http/https,
\* given as the seed or found among the links of a processed page, is a key
\* of the results with the "Invalid url" exception and no status.
InvalidUrlRecorded ==
    pc = "done" =>
        \A u \in URLS :
            (/\ Scheme(u) \notin {"http", "https"}
             /\ (u = start_url \/ \E p \in Keys(results) : u \in results[p].links))
            => /\ u \in Keys(results)
               /\ results[u].exception = "ValueError"
               /\ results[u].status = None

RECURSIVE Concat(_)
Concat(ss) == IF ss = <<>> THEN <<>> ELSE Head(ss) \o Concat(Tail(ss))

\* the chunks, in order, make up l; none is empty; all but the last have n
ChunksCover(c, l, n) ==
    /\ Concat(c) = l
    /\ \A j \in 1..Len(c) : Len(c[j]) >= 1 /\ (j < Len(c) => Len(c[j]) = n)

\* C18: for every list and every n >= 1 the chunks concatenate to the list,
\* are non-empty and, but for the last, of size n; so each stdin argument is
\* in exactly one partition and one launched command, in input order.
ChunksPartitionTheList ==
    /\ \A n \in 1..(MaxArgs + 1) : ChunksCover(Chunks(args, n), args, n)
    /\ xpc \in {"partitioned", "AssertionError", "launching", "done"} =>
          ChunksCover(partitioned_args, args, CeilDiv(Len(args), num_parts))
    /\ xpc = "done" =>
          Concat([j \in 1..Len(launched) |->
                     SubSeq(launched[j], Len(command) + 1, Len(launched[j]))])
             = args

\* three commands were launched, the last with fewer arguments
UnevenPartitionsLaunched ==
    /\ xpc = "done" /\ Len(launched) = 3
    /\ Len(partitioned_args[3]) < Len(partitioned_args[1])

\* C19: between iterations the two counters add up to the number of keys
\* added to the results since the scanner was constructed; an iteration
\* increments exactly one counter, the success counter exactly when the
\* record is ok.
CountersMatchResults ==
    /\ [](pc = "loop" =>
            success_count + fail_count
                = Size(results) - Cardinality(resumed_with))
    /\ [][(pc = "popped" /\ pc' = "processed")
            => /\ success_count' + fail_count' = success_count + fail_count + 1
               /\ success_count' = success_count + 1 <=> RecOk(r')
               /\ success_count' >= success_count
               /\ fail_count' >= fail_count]_vars

=============================================================================
